---------------------------- MODULE Spec2Model ----------------------------
(***************************************************************************)
(* SaveCheckpointWithMetadata (src/__init__.py): the node's save()         *)
(* operation as a state machine over one output directory.                 *)
(*                                                                         *)
(* Python str values are TLA+ strings; Python objects are tagged records.  *)
(* json.loads / json.dumps are modelled on the characters of the text, for *)
(* the JSON subset whose alphabet the sample inputs use: the whitespace    *)
(* character " ", the literals null/true/false, non-negative integer       *)
(* literals, strings without backslash escapes, arrays and objects.        *)
(***************************************************************************)
EXTENDS Integers, Sequences, FiniteSets, TLC

VARIABLES
    dirExists,   \* full_dir exists on disk
    files,       \* names of the entries of full_dir
    owner,       \* per entry: the save invocation that last wrote it (0: not a save)
    pc,          \* per process: position inside save()
    args,        \* per process: the arguments of the running invocation
    final_meta,  \* per process: final_meta (line 198-199)
    start_n,     \* per process: start_n of _choose_ckpt_path (line 143-147)
    ckpt_path,   \* per process: ckpt_path (line 207), "" before it is chosen
    raised,      \* per process: the exception that ended the invocation, "" if none
    inv,         \* per process: number of this invocation (0 before the first)
    hist,        \* per process: what this invocation has observed and done
    nsaves,      \* invocations begun so far
    nadded,      \* entries added to the directory by others so far
    chosen       \* log of the paths chosen, in order of choice

vars == <<dirExists, files, owner, pc, args, final_meta, start_n, ckpt_path,
          raised, inv, hist, nsaves, nadded, chosen>>

-----------------------------------------------------------------------------
(* Bounds of the model: invocations begun and entries added by other       *)
(* programs, in the sequential, the concurrent and the metadata            *)
(* specification.                                                          *)
MaxSaves == 3
MaxAdded == 2
ConcSaves == 2
ConcAdded == 1
MetaSaves == 2

(* {n:05}: the minimum width of the suffix number.                         *)
PadWidth == 5

-----------------------------------------------------------------------------
(* Python values.                                                          *)
PyNone == [t |-> "None"]
PyBool(b) == [t |-> "bool", b |-> b]
PyInt(n) == [t |-> "int", n |-> n]
PyStr(s) == [t |-> "str", s |-> s]
PyList(xs) == [t |-> "list", xs |-> xs]
\* a dict: its items in insertion order, each <<key, value>>
PyDict(kv) == [t |-> "dict", kv |-> kv]
\* an object json.dumps cannot serialize; repr is what str() gives
PyObject(r) == [t |-> "object", repr |-> r]

IsStr(v) == v.t = "str"
IsDict(v) == v.t = "dict"

-----------------------------------------------------------------------------
(* Characters and strings.                                                 *)
\* s[i-1:i]: the i-th character, "" beyond the end
Ch(s, i) == IF 1 <= i /\ i <= Len(s) THEN SubSeq(s, i, i) ELSE ""

\* str.strip() and the JSON decoder's whitespace, over the model's alphabet
Whitespace == {" "}

DigitChars == {"0", "1", "2", "3", "4", "5", "6", "7", "8", "9"}

\* Stands for U+00B2 SUPERSCRIPT TWO: str.isdigit() accepts it, int() does not.
SuperscriptTwo == "^"

DigitVal(c) ==
    CASE c = "0" -> 0 [] c = "1" -> 1 [] c = "2" -> 2 [] c = "3" -> 3
      [] c = "4" -> 4 [] c = "5" -> 5 [] c = "6" -> 6 [] c = "7" -> 7
      [] c = "8" -> 8 [] c = "9" -> 9

DigitChar(d) == Ch("0123456789", d + 1)

RECURSIVE LStrip(_)
LStrip(s) ==
    IF Len(s) > 0 /\ Ch(s, 1) \in Whitespace THEN LStrip(SubSeq(s, 2, Len(s))) ELSE s

RECURSIVE RStrip(_)
RStrip(s) ==
    IF Len(s) > 0 /\ Ch(s, Len(s)) \in Whitespace
    THEN RStrip(SubSeq(s, 1, Len(s) - 1)) ELSE s

\* str.strip()
Strip(s) == RStrip(LStrip(s))

\* str.startswith / str.endswith
StartsWith(s, p) == Len(p) <= Len(s) /\ SubSeq(s, 1, Len(p)) = p
EndsWith(s, p) == Len(p) <= Len(s) /\ SubSeq(s, Len(s) - Len(p) + 1, Len(s)) = p

\* str(n) for an int n >= 0
RECURSIVE IntToStr(_)
IntToStr(n) ==
    IF n < 10 THEN DigitChar(n) ELSE IntToStr(n \div 10) \o DigitChar(n % 10)

\* int(s) for a string of ASCII digits
RECURSIVE StrToInt(_)
StrToInt(s) ==
    IF Len(s) = 0 THEN 0
    ELSE 10 * StrToInt(SubSeq(s, 1, Len(s) - 1)) + DigitVal(Ch(s, Len(s)))

-----------------------------------------------------------------------------
(* dict operations.                                                        *)
DictKeys(kv) == {kv[i][1] : i \in 1..Len(kv)}

\* d[k] = v: an existing key keeps its place, a new one goes last
DictSet(kv, k, v) ==
    IF k \in DictKeys(kv)
    THEN [i \in 1..Len(kv) |-> IF kv[i][1] = k THEN <<k, v>> ELSE kv[i]]
    ELSE Append(kv, <<k, v>>)

-----------------------------------------------------------------------------
(* json.loads.                                                             *)
ScanFail == [ok |-> FALSE, v |-> PyNone, i |-> 0]
ScanOk(v, i) == [ok |-> TRUE, v |-> v, i |-> i]

RECURSIVE SkipWs(_, _)
SkipWs(s, i) ==
    IF i <= Len(s) /\ Ch(s, i) \in Whitespace THEN SkipWs(s, i + 1) ELSE i

LitAt(s, i, lit) ==
    i + Len(lit) - 1 <= Len(s) /\ SubSeq(s, i, i + Len(lit) - 1) = lit

\* first index >= i that holds no ASCII digit
RECURSIVE DigitsEnd(_, _)
DigitsEnd(s, i) ==
    IF i <= Len(s) /\ Ch(s, i) \in DigitChars THEN DigitsEnd(s, i + 1) ELSE i

\* NUMBER_RE, integer part: 0 | [1-9][0-9]*
ScanNumber(s, i) ==
    IF Ch(s, i) = "0" THEN ScanOk(PyInt(0), i + 1)
    ELSE LET j == DigitsEnd(s, i)
         IN  ScanOk(PyInt(StrToInt(SubSeq(s, i, j - 1))), j)

\* index of the closing quote at or after i, 0 when the string is unterminated
RECURSIVE QuoteAt(_, _)
QuoteAt(s, i) ==
    IF i > Len(s) THEN 0
    ELSE IF Ch(s, i) = "\"" THEN i
    ELSE QuoteAt(s, i + 1)

\* a string whose opening quote is at i - 1
ScanString(s, i) ==
    LET q == QuoteAt(s, i)
    IN  IF q = 0 THEN ScanFail ELSE ScanOk(PyStr(SubSeq(s, i, q - 1)), q + 1)

RECURSIVE ScanOnce(_, _)
RECURSIVE ScanMembers(_, _, _)
RECURSIVE ScanElements(_, _, _)

\* JSONObject's loop; i is at the opening quote of a key
ScanMembers(s, i, acc) ==
    LET k == ScanString(s, i + 1)
        c == SkipWs(s, k.i)
        v == ScanOnce(s, SkipWs(s, c + 1))
        e == SkipWs(s, v.i)
        acc2 == DictSet(acc, k.v, v.v)
        n == SkipWs(s, e + 1)
    IN  IF ~k.ok THEN ScanFail
        ELSE IF Ch(s, c) # ":" THEN ScanFail
        ELSE IF ~v.ok THEN ScanFail
        ELSE IF Ch(s, e) = "}" THEN ScanOk(PyDict(acc2), e + 1)
        ELSE IF Ch(s, e) # "," THEN ScanFail
        ELSE IF Ch(s, n) # "\"" THEN ScanFail
        ELSE ScanMembers(s, n, acc2)

\* JSONObject; i is after the opening brace
ScanObject(s, i) ==
    LET j == SkipWs(s, i)
    IN  IF Ch(s, j) = "}" THEN ScanOk(PyDict(<<>>), j + 1)
        ELSE IF Ch(s, j) # "\"" THEN ScanFail
        ELSE ScanMembers(s, j, <<>>)

\* JSONArray's loop; i is at the first character of an element
ScanElements(s, i, acc) ==
    LET v == ScanOnce(s, i)
        e == SkipWs(s, v.i)
    IN  IF ~v.ok THEN ScanFail
        ELSE IF Ch(s, e) = "]" THEN ScanOk(PyList(Append(acc, v.v)), e + 1)
        ELSE IF Ch(s, e) # "," THEN ScanFail
        ELSE ScanElements(s, SkipWs(s, e + 1), Append(acc, v.v))

\* JSONArray; i is after the opening bracket
ScanArray(s, i) ==
    LET j == SkipWs(s, i)
    IN  IF Ch(s, j) = "]" THEN ScanOk(PyList(<<>>), j + 1)
        ELSE ScanElements(s, j, <<>>)

\* scan_once
ScanOnce(s, i) ==
    LET c == Ch(s, i)
    IN  IF i > Len(s) THEN ScanFail
        ELSE IF c = "\"" THEN ScanString(s, i + 1)
        ELSE IF c = "{" THEN ScanObject(s, i + 1)
        ELSE IF c = "[" THEN ScanArray(s, i + 1)
        ELSE IF LitAt(s, i, "null") THEN ScanOk(PyNone, i + 4)
        ELSE IF LitAt(s, i, "true") THEN ScanOk(PyBool(TRUE), i + 4)
        ELSE IF LitAt(s, i, "false") THEN ScanOk(PyBool(FALSE), i + 5)
        ELSE IF c \in DigitChars THEN ScanNumber(s, i)
        ELSE ScanFail

\* json.loads(s): ok is FALSE where it raises JSONDecodeError
JsonLoads(s) ==
    LET r == ScanOnce(s, SkipWs(s, 1))
    IN  IF r.ok /\ SkipWs(s, r.i) = Len(s) + 1
        THEN [ok |-> TRUE, v |-> r.v]
        ELSE [ok |-> FALSE, v |-> PyNone]

-----------------------------------------------------------------------------
(* json.dumps(v, ensure_ascii=False).                                      *)

\* whether json.dumps(v) raises TypeError
RECURSIVE DumpsRaises(_)
DumpsRaises(v) ==
    CASE v.t = "object" -> TRUE
      [] v.t = "list" -> \E i \in 1..Len(v.xs) : DumpsRaises(v.xs[i])
      [] v.t = "dict" -> \E i \in 1..Len(v.kv) :
                            \/ v.kv[i][1].t \notin {"str", "int"}
                            \/ DumpsRaises(v.kv[i][2])
      [] OTHER -> FALSE

\* the encoder's escaping of a string's characters
RECURSIVE EscapeStr(_)
EscapeStr(s) ==
    IF Len(s) = 0 THEN ""
    ELSE LET c == Ch(s, 1)
             r == EscapeStr(SubSeq(s, 2, Len(s)))
         IN  IF c = "\"" THEN "\\\"" \o r
             ELSE IF c = "\\" THEN "\\\\" \o r
             ELSE c \o r

RECURSIVE JsonDumps(_)
RECURSIVE DumpsItems(_, _)
RECURSIVE DumpsPairs(_, _)

\* the elements from the i-th on, joined by ", "
DumpsItems(xs, i) ==
    IF i > Len(xs) THEN ""
    ELSE JsonDumps(xs[i]) \o (IF i < Len(xs) THEN ", " ELSE "") \o DumpsItems(xs, i + 1)

\* a dict key as the encoder writes it
DumpsKey(k) ==
    "\"" \o (IF k.t = "str" THEN EscapeStr(k.s) ELSE IntToStr(k.n)) \o "\""

\* the items from the i-th on, each "key": value, joined by ", "
DumpsPairs(kv, i) ==
    IF i > Len(kv) THEN ""
    ELSE DumpsKey(kv[i][1]) \o ": " \o JsonDumps(kv[i][2])
         \o (IF i < Len(kv) THEN ", " ELSE "") \o DumpsPairs(kv, i + 1)

JsonDumps(v) ==
    CASE v.t = "None" -> "null"
      [] v.t = "bool" -> IF v.b THEN "true" ELSE "false"
      [] v.t = "int" -> IntToStr(v.n)
      [] v.t = "str" -> "\"" \o EscapeStr(v.s) \o "\""
      [] v.t = "list" -> "[" \o DumpsItems(v.xs, 1) \o "]"
      [] v.t = "dict" -> "{" \o DumpsPairs(v.kv, 1) \o "}"

\* str(v), for the values used as keys or met by the fallback of line 192
PyStrOf(v) ==
    CASE v.t = "str" -> v.s
      [] v.t = "int" -> IntToStr(v.n)
      [] v.t = "None" -> "None"
      [] v.t = "bool" -> IF v.b THEN "True" ELSE "False"
      [] v.t = "object" -> v.repr

-----------------------------------------------------------------------------
(* The metadata mapping: a function from keys to values.                   *)
EmptyMap == [k \in {} |-> PyNone]

\* m[k] = v
MapSet(m, k, v) == [x \in DOMAIN m \cup {k} |-> IF x = k THEN v ELSE m[x]]

\* dict.update: base updated with over
MapUpdate(base, over) ==
    [k \in DOMAIN base \cup DOMAIN over |-> IF k \in DOMAIN over THEN over[k] ELSE base[k]]

\* a fault: the value is stored as it is
CoerceValueNative(v) == v

\* v if isinstance(v, str) else json.dumps(v, ensure_ascii=False)
CoerceValue(v) == IF IsStr(v) THEN v ELSE PyStr(JsonDumps(v))

\* str(k)
CoerceKey(k) == PyStr(PyStrOf(k))

\* the loop of _coerce_metadata over dct.items(), from the i-th item on
RECURSIVE CoerceItems(_, _, _)
CoerceItems(kv, i, out) ==
    IF i > Len(kv) THEN out
    ELSE CoerceItems(kv, i + 1, MapSet(out, CoerceKey(kv[i][1]), CoerceValue(kv[i][2])))

\* a fault: no special case for None
CoerceMetadataStrict(dct) ==
    IF ~IsDict(dct)
    THEN [raised |-> "ValueError: metadata_json must be a JSON object.", out |-> EmptyMap]
    ELSE [raised |-> "", out |-> CoerceItems(dct.kv, 1, EmptyMap)]

\* _coerce_metadata(dct)
CoerceMetadata(dct) ==
    IF dct = PyNone THEN [raised |-> "", out |-> EmptyMap]
    ELSE IF ~IsDict(dct)
    THEN [raised |-> "ValueError: metadata_json must be a JSON object.", out |-> EmptyMap]
    ELSE [raised |-> "", out |-> CoerceItems(dct.kv, 1, EmptyMap)]

\* a fault: text that does not parse is taken as the empty object
ParseUserMetaLenient(metadata_json) ==
    IF Strip(metadata_json) # "" /\ JsonLoads(metadata_json).ok
    THEN [raised |-> "", v |-> JsonLoads(metadata_json).v]
    ELSE [raised |-> "", v |-> PyDict(<<>>)]

\* lines 165-168: the parsed metadata_json
ParseUserMeta(metadata_json) ==
    IF Strip(metadata_json) # ""
    THEN LET r == JsonLoads(metadata_json)
         IN  IF r.ok THEN [raised |-> "", v |-> r.v]
             ELSE [raised |-> "ValueError: Invalid metadata_json", v |-> PyNone]
    ELSE [raised |-> "", v |-> PyDict(<<>>)]

\* _serialize_prompt: v is None (no prompt) or the text
SerializePrompt(prompt_obj_or_str) ==
    IF prompt_obj_or_str = PyNone THEN [raised |-> "", v |-> PyNone]
    ELSE IF IsStr(prompt_obj_or_str)
    THEN LET s == Strip(prompt_obj_or_str.s)
         IN  [raised |-> "", v |-> IF s # "" THEN PyStr(s) ELSE PyNone]
    ELSE IF DumpsRaises(prompt_obj_or_str) THEN [raised |-> "TypeError", v |-> PyNone]
    ELSE [raised |-> "", v |-> PyStr(JsonDumps(prompt_obj_or_str))]

\* a fault: the override is used as typed, without the JSON round trip
EffectivePromptRaw(prompt_override, prompt) ==
    IF prompt_override # "" /\ Strip(prompt_override) # ""
    THEN SerializePrompt(PyStr(prompt_override))
    ELSE SerializePrompt(prompt)

\* lines 172-179: effective_prompt
EffectivePrompt(prompt_override, prompt) ==
    IF prompt_override # "" /\ Strip(prompt_override) # ""
    THEN LET r == JsonLoads(prompt_override)
         IN  IF r.ok /\ SerializePrompt(r.v).raised = ""
             THEN SerializePrompt(r.v)
             ELSE SerializePrompt(PyStr(prompt_override))
    ELSE SerializePrompt(prompt)

\* lines 189-192: the value stored for an EXTRA_PNGINFO item
ExtraValue(v) ==
    IF IsStr(v) THEN v
    ELSE IF DumpsRaises(v) THEN PyStr(PyStrOf(v))
    ELSE PyStr(JsonDumps(v))

\* the loop of lines 188-195 over extra_pnginfo.items(), from the i-th item on
RECURSIVE ExtraItems(_, _, _)
ExtraItems(kv, i, base) ==
    IF i > Len(kv) THEN base
    ELSE ExtraItems(kv, i + 1, MapSet(base, CoerceKey(kv[i][1]), ExtraValue(kv[i][2])))

\* a fault: the base is built in replace mode too
BaseMetadataAnyMode(metadata_mode, effective_prompt, include_extra_pnginfo, extra_pnginfo) ==
    LET withPrompt ==
            IF effective_prompt # PyNone
            THEN MapSet(EmptyMap, PyStr("prompt"), effective_prompt)
            ELSE EmptyMap
    IN  IF include_extra_pnginfo /\ IsDict(extra_pnginfo)
        THEN ExtraItems(extra_pnginfo.kv, 1, withPrompt)
        ELSE withPrompt

\* lines 182-195: base_metadata
BaseMetadata(metadata_mode, effective_prompt, include_extra_pnginfo, extra_pnginfo) ==
    IF metadata_mode = "merge_minimal"
    THEN LET withPrompt ==
                 IF effective_prompt # PyNone
                 THEN MapSet(EmptyMap, PyStr("prompt"), effective_prompt)
                 ELSE EmptyMap
         IN  IF include_extra_pnginfo /\ IsDict(extra_pnginfo)
             THEN ExtraItems(extra_pnginfo.kv, 1, withPrompt)
             ELSE withPrompt
    ELSE EmptyMap

\* a fault: the update runs the other way, the base wins
FinalMetaBaseWins(base_metadata, user_meta) == MapUpdate(user_meta, base_metadata)

\* lines 198-199: final_meta
FinalMeta(base_metadata, user_meta) == MapUpdate(base_metadata, user_meta)

\* lines 164-199 of save(): the exception raised ("" if none) and final_meta
ResolveMetadata(a) ==
    LET parsed == ParseUserMeta(a.metadata_json)
        user == CoerceMetadata(parsed.v)
        eff == EffectivePrompt(a.prompt_override, a.prompt)
    IN  IF parsed.raised # "" THEN [raised |-> parsed.raised, meta |-> EmptyMap]
        ELSE IF user.raised # "" THEN [raised |-> user.raised, meta |-> EmptyMap]
        ELSE IF eff.raised # "" THEN [raised |-> eff.raised, meta |-> EmptyMap]
        ELSE [raised |-> "",
              meta |-> FinalMeta(BaseMetadata(a.metadata_mode, eff.v,
                                              a.include_extra_pnginfo, a.extra_pnginfo),
                                 user.out)]

-----------------------------------------------------------------------------
(* File names.                                                             *)

\* folder_paths.get_save_image_path(filename_prefix, out_dir): full_dir, base
FullDir == "out"
Base == "ck"

\* os.path.join(full_dir, name)
JoinPath(full_dir, name) == full_dir \o "/" \o name

\* s[a:e], Python's half-open slice with 0 <= a
Slice(s, a, e) == IF a >= e \/ a >= Len(s) THEN "" ELSE SubSeq(s, a + 1, e)

\* a number's text padded with zeros on the left to width w
RECURSIVE ZeroPad(_, _)
ZeroPad(s, w) == IF Len(s) >= w THEN s ELSE ZeroPad("0" \o s, w)

\* _build_unsuffixed_path
BuildUnsuffixedPath(full_dir, base) == JoinPath(full_dir, base \o ".safetensors")

\* _build_suffixed_path
BuildSuffixedPath(full_dir, base, n) ==
    JoinPath(full_dir, base \o "_" \o ZeroPad(IntToStr(n), PadWidth) \o "_.safetensors")

\* a fault: only numbers of the padded width count
IsDigitOfPadWidth(s) ==
    /\ Len(s) = PadWidth
    /\ \A i \in 1..Len(s) : Ch(s, i) \in DigitChars \cup {SuperscriptTwo}

\* str.isdigit()
IsDigit(s) ==
    /\ Len(s) > 0
    /\ \A i \in 1..Len(s) : Ch(s, i) \in DigitChars \cup {SuperscriptTwo}

\* whether int(s) raises ValueError, for s with s.isdigit()
IntRaises(s) == \E i \in 1..Len(s) : Ch(s, i) = SuperscriptTwo

\* a fault: without the test n >= next_n, the last number listed wins
RECURSIVE ScanNamesLastWins(_, _, _)
ScanNamesLastWins(names, base, next_n) ==
    IF names = {} THEN [raised |-> "", n |-> next_n]
    ELSE LET name == CHOOSE x \in names : TRUE
             rest == names \ {name}
             middle == Slice(name, Len(base) + 1, Len(name) - Len("_.safetensors"))
         IN  IF ~StartsWith(name, base \o "_") \/ ~EndsWith(name, "_.safetensors")
             THEN ScanNamesLastWins(rest, base, next_n)
             ELSE IF ~(Len(middle) > 0 /\ \A i \in 1..Len(middle) :
                          Ch(middle, i) \in DigitChars \cup {SuperscriptTwo})
             THEN ScanNamesLastWins(rest, base, next_n)
             ELSE IF \E i \in 1..Len(middle) : Ch(middle, i) = SuperscriptTwo
             THEN [raised |-> "ValueError", n |-> 0]
             ELSE ScanNamesLastWins(rest, base, StrToInt(middle) + 1)

\* lines 113-119: the loop body of _next_suffix_from_dir for one name
RECURSIVE ScanNames(_, _, _)
ScanNames(names, base, next_n) ==
    IF names = {} THEN [raised |-> "", n |-> next_n]
    ELSE LET name == CHOOSE x \in names : TRUE
             rest == names \ {name}
             middle == Slice(name, Len(base) + 1, Len(name) - Len("_.safetensors"))
         IN  IF ~StartsWith(name, base \o "_") \/ ~EndsWith(name, "_.safetensors")
             THEN ScanNames(rest, base, next_n)
             ELSE IF ~IsDigit(middle) THEN ScanNames(rest, base, next_n)
             ELSE IF IntRaises(middle) THEN [raised |-> "ValueError", n |-> 0]
             ELSE LET n == StrToInt(middle)
                  IN  ScanNames(rest, base, IF n >= next_n THEN n + 1 ELSE next_n)

\* _next_suffix_from_dir: listing is os.listdir(full_dir), exists is FALSE
\* where it raises FileNotFoundError
NextSuffixFromDir(exists, listing, base) ==
    IF exists THEN ScanNames(listing, base, 1) ELSE [raised |-> "", n |-> 1]

\* a fault: the test looks for the path with the extension doubled
PathExistsDoubledExtension(path) ==
    dirExists /\ \E name \in files : JoinPath(FullDir, name) = path \o ".safetensors"

\* os.path.exists(path)
PathExists(path) == dirExists /\ \E name \in files : JoinPath(FullDir, name) = path

\* the directory entry a path of full_dir names
NameOf(path) == Slice(path, Len(FullDir) + 1, Len(path))

-----------------------------------------------------------------------------
(* Processes and inputs.                                                   *)
Procs == {1, 2}

\* before and after an invocation
NoArgs ==
    [filename_mode |-> "", metadata_json |-> "", metadata_mode |-> "",
     include_extra_pnginfo |-> FALSE, prompt_override |-> "",
     prompt |-> PyNone, extra_pnginfo |-> PyNone]

\* what an invocation has seen and done so far
NoHist ==
    [emptyAtStart |-> FALSE,  \* the directory had no entry when the invocation began
     scanned |-> FALSE,       \* _next_suffix_from_dir has run
     listing |-> {},          \* the names os.listdir returned to it
     busy |-> {},             \* the suffix numbers whose path the loop of line 145 found existing
     atChoice |-> {},         \* the entries when ckpt_path was chosen
     interfered |-> FALSE,    \* another writer changed the directory meanwhile
     effects |-> {},          \* the filesystem calls made
     prevOwner |-> [inv |-> -1, mode |-> ""]]  \* who had written ckpt_path before

FilenameModes == {"smart_counter", "no_counter_overwrite"}
MetadataModes == {"replace", "merge_minimal"}

\* metadata_json texts
MetaTexts ==
    {"", "  ", "{}", "{\"a\":\"x\"}", "{\"epochs\":80, \"prompt\":\"u\"}",
     "{\"k\":[1,2],\"w\":null}", "null", "[1]", "\"s\"", "7", "true", "{not json",
     "{\"a\":1,}"}

\* prompt_override texts
Overrides ==
    {"", " ", "{\"a\":1}", "null", "\"hi \"", "\"\"", "raw text ", "5"}

\* the hidden PROMPT input: absent, a string, or the host's JSON data
Prompts ==
    {PyNone, PyStr(" "), PyStr(" p "),
     PyDict(<<<<PyStr("1"), PyDict(<<<<PyStr("class_type"), PyStr("KSampler")>>>>)>>>>)}

\* the hidden EXTRA_PNGINFO input
Extras ==
    {PyNone,
     PyList(<<PyInt(1)>>),
     PyDict(<<<<PyStr("workflow"), PyDict(<<<<PyStr("id"), PyInt(3)>>>>)>>,
              <<PyStr("prompt"), PyStr("e")>>,
              <<PyStr("k"), PyInt(5)>>,
              <<PyInt(7), PyObject("<obj>")>>>>)}

\* the invocations of the metadata specification
MetaArgs ==
    [filename_mode : FilenameModes, metadata_json : MetaTexts,
     metadata_mode : MetadataModes, include_extra_pnginfo : BOOLEAN,
     prompt_override : Overrides, prompt : Prompts, extra_pnginfo : Extras]

\* the invocations of the file-name specifications
FileArgs ==
    [filename_mode : FilenameModes, metadata_json : {"{\"a\":1}"},
     metadata_mode : {"replace"}, include_extra_pnginfo : {TRUE},
     prompt_override : {""}, prompt : {PyNone}, extra_pnginfo : {PyNone}]

\* entries other programs may add to full_dir
ExternalNames ==
    {"ck.safetensors", "ck_00002_.safetensors", "ck_7_.safetensors",
     "ck_000004_.safetensors", "ck_00003_.ckpt", "ckx_00005_.safetensors",
     "ck_99999_.safetensors", "ck_0000^_.safetensors"}

\* the entries other programs add in the concurrent specification
ConcNames == {"ck.safetensors", "ck_00001_.safetensors"}

-----------------------------------------------------------------------------
(* save().                                                                 *)
Init ==
    /\ dirExists = FALSE
    /\ files = {}
    /\ owner = [f \in {} |-> [inv |-> 0, mode |-> ""]]
    /\ pc = [p \in Procs |-> "idle"]
    /\ args = [p \in Procs |-> NoArgs]
    /\ final_meta = [p \in Procs |-> EmptyMap]
    /\ start_n = [p \in Procs |-> 0]
    /\ ckpt_path = [p \in Procs |-> ""]
    /\ raised = [p \in Procs |-> ""]
    /\ inv = [p \in Procs |-> 0]
    /\ hist = [p \in Procs |-> NoHist]
    /\ nsaves = 0
    /\ nadded = 0
    /\ chosen = <<>>

\* hist after a change of the directory by `by` (0: another program)
Interfere(h, by) ==
    [p \in Procs |-> IF p # by /\ pc[p] \notin {"idle", "done", "raised"}
                     THEN [h[p] EXCEPT !.interfered = TRUE] ELSE h[p]]

\* lines 164-199: save() is called with arguments from A and resolves the metadata
Begin(p, A, max) ==
    /\ pc[p] = "idle"
    /\ nsaves < max
    /\ \E a \in A :
         LET r == ResolveMetadata(a)
         IN  /\ args' = [args EXCEPT ![p] = a]
             /\ final_meta' = [final_meta EXCEPT ![p] = r.meta]
             /\ raised' = [raised EXCEPT ![p] = r.raised]
             /\ pc' = [pc EXCEPT ![p] = IF r.raised = "" THEN "makedirs" ELSE "raised"]
    /\ nsaves' = nsaves + 1
    /\ inv' = [inv EXCEPT ![p] = nsaves + 1]
    /\ hist' = [hist EXCEPT ![p] = [NoHist EXCEPT !.emptyAtStart = (files = {})]]
    /\ UNCHANGED <<dirExists, files, owner, start_n, ckpt_path, nadded, chosen>>

\* lines 202-204: os.makedirs(full_dir, exist_ok=True)
Makedirs(p) ==
    /\ pc[p] = "makedirs"
    /\ dirExists' = TRUE
    /\ hist' = [hist EXCEPT ![p].effects = @ \cup {"makedirs"}]
    /\ pc' = [pc EXCEPT ![p] = "choose"]
    /\ UNCHANGED <<files, owner, args, final_meta, start_n, ckpt_path, raised, inv,
                   nsaves, nadded, chosen>>

\* ckpt_path is set to path
ChoosePath(p, path) ==
    /\ ckpt_path' = [ckpt_path EXCEPT ![p] = path]
    /\ chosen' = Append(chosen, [inv |-> inv[p], mode |-> args[p].filename_mode,
                                 path |-> path])
    /\ hist' = [hist EXCEPT ![p].atChoice = files]
    /\ pc' = [pc EXCEPT ![p] = "write"]

\* a fault: the mode is not looked at
ReturnsUnsuffixedIfFree(filename_mode, unsuffixedExists) == ~unsuffixedExists

\* lines 136-141: whether _choose_ckpt_path returns the unsuffixed path
ReturnsUnsuffixed(filename_mode, unsuffixedExists) ==
    filename_mode = "no_counter_overwrite" \/ ~unsuffixedExists

\* lines 134-141: _choose_ckpt_path up to the test of the unsuffixed path
Choose(p) ==
    /\ pc[p] = "choose"
    /\ LET unsuffixed == BuildUnsuffixedPath(FullDir, Base)
       IN  IF ReturnsUnsuffixed(args[p].filename_mode, PathExists(unsuffixed))
           THEN ChoosePath(p, unsuffixed)
           ELSE /\ pc' = [pc EXCEPT ![p] = "scan"]
                /\ UNCHANGED <<ckpt_path, chosen, hist>>
    /\ UNCHANGED <<dirExists, files, owner, args, final_meta, start_n, raised, inv,
                   nsaves, nadded>>

\* line 143: start_n = self._next_suffix_from_dir(full_dir, base)
Scan(p) ==
    /\ pc[p] = "scan"
    /\ LET r == NextSuffixFromDir(dirExists, files, Base)
       IN  /\ start_n' = [start_n EXCEPT ![p] = r.n]
           /\ raised' = [raised EXCEPT ![p] = r.raised]
           /\ pc' = [pc EXCEPT ![p] = IF r.raised = "" THEN "probe" ELSE "raised"]
    /\ hist' = [hist EXCEPT ![p].scanned = TRUE, ![p].listing = files]
    /\ UNCHANGED <<dirExists, files, owner, args, final_meta, ckpt_path, inv, nsaves,
                   nadded, chosen>>

\* lines 144-148: one test of the loop while os.path.exists(path)
Probe(p) ==
    /\ pc[p] = "probe"
    /\ LET path == BuildSuffixedPath(FullDir, Base, start_n[p])
       IN  IF PathExists(path)
           THEN /\ start_n' = [start_n EXCEPT ![p] = @ + 1]
                /\ hist' = [hist EXCEPT ![p].busy = @ \cup {start_n[p]}]
                /\ UNCHANGED <<pc, ckpt_path, chosen>>
           ELSE /\ ChoosePath(p, path)
                /\ UNCHANGED start_n
    /\ UNCHANGED <<dirExists, files, owner, args, final_meta, raised, inv, nsaves, nadded>>

\* lines 210-218: comfy.sd.save_checkpoint(ckpt_path, ..., metadata=final_meta)
Write(p) ==
    /\ pc[p] = "write"
    /\ LET name == NameOf(ckpt_path[p])
       IN  /\ files' = files \cup {name}
           /\ owner' = [f \in files \cup {name} |->
                          IF f = name
                          THEN [inv |-> inv[p], mode |-> args[p].filename_mode]
                          ELSE owner[f]]
           /\ hist' = [Interfere(hist, p) EXCEPT
                         ![p].effects = @ \cup {"write"},
                         ![p].prevOwner = IF name \in files THEN owner[name]
                                          ELSE [inv |-> 0, mode |-> ""]]
    /\ pc' = [pc EXCEPT ![p] = "done"]
    /\ UNCHANGED <<dirExists, args, final_meta, start_n, ckpt_path, raised, inv, nsaves,
                   nadded, chosen>>

\* line 225, or the exception leaving save(): the invocation is over
Return(p) ==
    /\ pc[p] \in {"done", "raised"}
    /\ pc' = [pc EXCEPT ![p] = "idle"]
    /\ args' = [args EXCEPT ![p] = NoArgs]
    /\ final_meta' = [final_meta EXCEPT ![p] = EmptyMap]
    /\ start_n' = [start_n EXCEPT ![p] = 0]
    /\ ckpt_path' = [ckpt_path EXCEPT ![p] = ""]
    /\ raised' = [raised EXCEPT ![p] = ""]
    /\ hist' = [hist EXCEPT ![p] = NoHist]
    /\ UNCHANGED <<dirExists, files, owner, inv, nsaves, nadded, chosen>>

\* another program creates an entry of full_dir
AddExternal(Names, max) ==
    /\ nadded < max
    /\ \E name \in Names \ files :
         /\ files' = files \cup {name}
         /\ owner' = [f \in files \cup {name} |->
                        IF f = name THEN [inv |-> 0, mode |-> "external"] ELSE owner[f]]
    /\ dirExists' = TRUE
    /\ nadded' = nadded + 1
    /\ hist' = Interfere(hist, 0)
    /\ UNCHANGED <<pc, args, final_meta, start_n, ckpt_path, raised, inv, nsaves, chosen>>

Quiet == \A p \in Procs : pc[p] = "idle"

\* concurrent invocations, other programs adding entries at any time
Next ==
    \/ \E p \in Procs :
         \/ Begin(p, FileArgs, ConcSaves)
         \/ Makedirs(p)
         \/ Choose(p)
         \/ Scan(p)
         \/ Probe(p)
         \/ Write(p)
         \/ Return(p)
    \/ AddExternal(ConcNames, ConcAdded)

Spec == Init /\ [][Next]_vars

\* one invocation at a time, entries added between invocations only
NextSeq ==
    \/ Quiet /\ Begin(1, FileArgs, MaxSaves)
    \/ Makedirs(1)
    \/ Choose(1)
    \/ Scan(1)
    \/ Probe(1)
    \/ Write(1)
    \/ Return(1)
    \/ Quiet /\ AddExternal(ExternalNames, MaxAdded)

SpecSeq == Init /\ [][NextSeq]_vars

\* one invocation at a time, over the metadata inputs
NextMeta ==
    \/ Begin(1, MetaArgs, MetaSaves)
    \/ Makedirs(1)
    \/ Choose(1)
    \/ Scan(1)
    \/ Probe(1)
    \/ Write(1)
    \/ Return(1)

SpecMeta == Init /\ [][NextMeta]_vars

-----------------------------------------------------------------------------
(* What the properties expect of the sample inputs, written out by hand.   *)

\* the mapping with the one key k and the value v, both strings
StrMap(k, v) == PyStr(k) :> PyStr(v)

\* the metadata_json samples that are JSON objects
ObjectTexts ==
    {"{}", "{\"a\":\"x\"}", "{\"epochs\":80, \"prompt\":\"u\"}", "{\"k\":[1,2],\"w\":null}"}

\* the string-coerced form of each
CoercedForm(text) ==
    CASE text = "{}" -> EmptyMap
      [] text = "{\"a\":\"x\"}" -> StrMap("a", "x")
      [] text = "{\"epochs\":80, \"prompt\":\"u\"}" ->
            StrMap("epochs", "80") @@ StrMap("prompt", "u")
      [] text = "{\"k\":[1,2],\"w\":null}" -> StrMap("k", "[1, 2]") @@ StrMap("w", "null")

\* the metadata_json samples that are not JSON, and those that are JSON but no object
InvalidTexts == {"{not json", "{\"a\":1,}"}
NonObjectTexts == {"null", "[1]", "\"s\"", "7", "true"}
BlankTexts == {"", "  "}

\* the string-coerced form of the EXTRA_PNGINFO sample that is a mapping
ExtraForm ==
    StrMap("workflow", "{\"id\": 3}") @@ StrMap("prompt", "e") @@ StrMap("k", "5")
        @@ StrMap("7", "<obj>")

\* the host prompt's text, PyNone when absent
HostPromptText(prompt) ==
    IF prompt = PyStr(" p ") THEN PyStr("p")
    ELSE IF IsDict(prompt) THEN PyStr("{\"1\": {\"class_type\": \"KSampler\"}}")
    ELSE PyNone

\* the effective prompt the code computes, PyNone when absent
ExpectedPrompt(override, prompt) ==
    CASE override \in {"", " "} -> HostPromptText(prompt)
      [] override = "{\"a\":1}" -> PyStr("{\"a\": 1}")
      [] override = "null" -> PyNone
      [] override = "\"hi \"" -> PyStr("hi")
      [] override = "\"\"" -> PyNone
      [] override = "raw text " -> PyStr("raw text")
      [] override = "5" -> PyStr("5")

\* the effective prompt if every override that parses were re-serialized
ReserializedPrompt(override, prompt) ==
    CASE override \in {"", " "} -> HostPromptText(prompt)
      [] override = "{\"a\":1}" -> PyStr("{\"a\": 1}")
      [] override = "null" -> PyStr("null")
      [] override = "\"hi \"" -> PyStr("\"hi \"")
      [] override = "\"\"" -> PyStr("\"\"")
      [] override = "raw text " -> PyStr("raw text")
      [] override = "5" -> PyStr("5")

\* whether the invocation copies the EXTRA_PNGINFO mapping
CopiesExtra(a) == a.include_extra_pnginfo /\ IsDict(a.extra_pnginfo)

\* the base mapping of merge_minimal
ExpectedBase(a) ==
    (IF CopiesExtra(a) THEN ExtraForm ELSE EmptyMap)
        @@ (IF ExpectedPrompt(a.prompt_override, a.prompt) # PyNone
            THEN PyStr("prompt") :> ExpectedPrompt(a.prompt_override, a.prompt)
            ELSE EmptyMap)

\* the user's part of the metadata, for the samples save() accepts
UserForm(text) == IF text \in ObjectTexts THEN CoercedForm(text) ELSE EmptyMap

-----------------------------------------------------------------------------
(* Properties of the metadata resolver, checked under SpecMeta.            *)

\* C1: in replace mode the mapping save() resolves and hands to the writer is
\* exactly the string-coerced metadata_json object, whatever prompt_override,
\* prompt, extra_pnginfo and include_extra_pnginfo are.
C1_ReplaceWritesCoercedUserMeta ==
    \A p \in Procs :
        (/\ pc[p] # "idle"
         /\ args[p].metadata_mode = "replace"
         /\ args[p].metadata_json \in ObjectTexts)
        => /\ raised[p] = ""
           /\ final_meta[p] = CoercedForm(args[p].metadata_json)

C1_Witness ==
    \E p \in Procs :
        /\ pc[p] = "done"
        /\ args[p].metadata_mode = "replace"
        /\ args[p].metadata_json = "{\"epochs\":80, \"prompt\":\"u\"}"
        /\ args[p].prompt_override = "raw text "
        /\ args[p].prompt # PyNone
        /\ CopiesExtra(args[p])
        /\ final_meta[p] = StrMap("epochs", "80") @@ StrMap("prompt", "u")

\* C2: in merge_minimal every key of the metadata_json object carries the
\* coerced metadata_json value in the mapping handed to the writer, also the
\* key "prompt" and the keys EXTRA_PNGINFO has too; every other key carries its
\* base value.
C2_UserWins ==
    \A p \in Procs :
        (/\ pc[p] = "done"
         /\ args[p].metadata_mode = "merge_minimal"
         /\ args[p].metadata_json \in ObjectTexts)
        => LET user == CoercedForm(args[p].metadata_json)
               base == ExpectedBase(args[p])
           IN  /\ DOMAIN final_meta[p] = DOMAIN user \cup DOMAIN base
               /\ \A k \in DOMAIN user : final_meta[p][k] = user[k]
               /\ \A k \in DOMAIN base \ DOMAIN user : final_meta[p][k] = base[k]

C2_Witness ==
    \E p \in Procs :
        /\ pc[p] = "done"
        /\ args[p].metadata_mode = "merge_minimal"
        /\ args[p].metadata_json = "{\"epochs\":80, \"prompt\":\"u\"}"
        /\ args[p].prompt_override = "{\"a\":1}"
        /\ CopiesExtra(args[p])
        /\ final_meta[p][PyStr("prompt")] = PyStr("u")
        /\ final_meta[p][PyStr("k")] = PyStr("5")

\* C4: metadata_json that is not blank and not JSON ends save() in the
\* ValueError "Invalid metadata_json" with no filesystem effect: no makedirs, no
\* path chosen, no call of the writer, in every filename and metadata mode.
C4_InvalidJsonNoEffect ==
    \A p \in Procs :
        (pc[p] # "idle" /\ args[p].metadata_json \in InvalidTexts)
        => /\ pc[p] = "raised"
           /\ raised[p] = "ValueError: Invalid metadata_json"
           /\ hist[p].effects = {}
           /\ ckpt_path[p] = ""
           /\ \A i \in 1..Len(chosen) : chosen[i].inv # inv[p]

C4_Witness ==
    \E p \in Procs :
        /\ pc[p] = "raised"
        /\ args[p].metadata_json = "{not json"
        /\ args[p].filename_mode = "no_counter_overwrite"
        /\ args[p].metadata_mode = "merge_minimal"
        /\ ~dirExists
        /\ files = {}

\* C5 as claimed: every JSON text that is no object, null among them, ends
\* save() in an error.
C5_NonObjectAlwaysRaises ==
    \A p \in Procs :
        (pc[p] # "idle" /\ args[p].metadata_json \in NonObjectTexts) => pc[p] = "raised"

\* C5, amended: an array, a string, a number or a boolean ends save() in the
\* ValueError "metadata_json must be a JSON object." before any filesystem
\* effect; null, like blank text, is taken as the empty object and the save
\* goes on with no user metadata.
C5_NonObjectRaisesButNull ==
    \A p \in Procs :
        /\ (pc[p] # "idle" /\ args[p].metadata_json \in NonObjectTexts \ {"null"})
           => /\ pc[p] = "raised"
              /\ raised[p] = "ValueError: metadata_json must be a JSON object."
              /\ hist[p].effects = {}
              /\ ckpt_path[p] = ""
        /\ (pc[p] # "idle" /\ args[p].metadata_json \in BlankTexts \cup {"null"})
           => /\ raised[p] = ""
              /\ final_meta[p] = IF args[p].metadata_mode = "replace" THEN EmptyMap
                                 ELSE ExpectedBase(args[p])

C5_Witness ==
    \E p \in Procs :
        /\ pc[p] = "done"
        /\ args[p].metadata_json = "null"
        /\ "write" \in hist[p].effects
        /\ NameOf(ckpt_path[p]) \in files

\* the mapping's "prompt", PyNone when it has none
PromptOf(m) == IF PyStr("prompt") \in DOMAIN m THEN m[PyStr("prompt")] ELSE PyNone

C7_AllStrings ==
    \A p \in Procs :
        pc[p] = "done"
        => /\ \A k \in DOMAIN final_meta[p] : IsStr(k) /\ IsStr(final_meta[p][k])
           /\ LET user == UserForm(args[p].metadata_json)
              IN  /\ \A k \in DOMAIN user : final_meta[p][k] = user[k]
                  /\ (args[p].metadata_mode = "merge_minimal" /\ CopiesExtra(args[p]))
                     => \A k \in DOMAIN ExtraForm \ DOMAIN user :
                            final_meta[p][k] = ExtraForm[k]

C7_Witness ==
    \E p \in Procs :
        /\ pc[p] = "done"
        /\ args[p].metadata_mode = "merge_minimal"
        /\ args[p].metadata_json = "{\"epochs\":80, \"prompt\":\"u\"}"
        /\ CopiesExtra(args[p])
        /\ final_meta[p][PyStr("epochs")] = PyStr("80")
        /\ final_meta[p][PyStr("workflow")] = PyStr("{\"id\": 3}")
        /\ final_meta[p][PyStr("7")] = PyStr("<obj>")

-----------------------------------------------------------------------------
(* What the properties expect of file names, written out by hand.          *)
UnsuffixedName == "ck.safetensors"
UnsuffixedPath == "out/ck.safetensors"

\* the suffixed name and path of number n
SuffixedName(n) == "ck_" \o ZeroPad(IntToStr(n), Len("00000")) \o "_.safetensors"
SuffixedPathOf(n) == "out/" \o SuffixedName(n)

\* the text between "ck_" and "_.safetensors" in a name or path that has both
MiddleOf(name, prefix) == Slice(name, Len(prefix), Len(name) - Len("_.safetensors"))

\* one or more ASCII digits
PlainDigits(s) == Len(s) > 0 /\ \A i \in 1..Len(s) : Ch(s, i) \in DigitChars

\* the entries ck_<digits>_.safetensors, with any number of digits
NumberedEntries(fs) ==
    {f \in fs : /\ StartsWith(f, "ck_")
                /\ EndsWith(f, "_.safetensors")
                /\ Len(f) > Len("ck_") + Len("_.safetensors")
                /\ PlainDigits(MiddleOf(f, "ck_"))}

\* those with exactly five digits
FiveDigitEntries(fs) == {f \in NumberedEntries(fs) : Len(MiddleOf(f, "ck_")) = Len("00000")}

NumbersOf(entries) == {StrToInt(MiddleOf(f, "ck_")) : f \in entries}

\* the greatest number of a set, 0 for the empty set
MaxOf(S) == IF S = {} THEN 0 ELSE CHOOSE m \in S : \A x \in S : x <= m

\* the suffix number of a suffixed path
SuffixNumber(path) == StrToInt(MiddleOf(path, "out/ck_"))

IsSmart(p) == args[p].filename_mode = "smart_counter"
HasChosen(p) == pc[p] \in {"write", "done"}

\* the entries of the log of choices that are suffixed paths of smart_counter
SuffixedChoices ==
    {i \in 1..Len(chosen) :
        chosen[i].mode = "smart_counter" /\ chosen[i].path # UnsuffixedPath}

-----------------------------------------------------------------------------
(* Properties of the file name selection.                                  *)

\* C3 (SpecSeq): over saves that run one after another on a directory that
\* only grows between them, a smart_counter save that began on an empty
\* directory chooses the unsuffixed path; the suffix numbers chosen increase
\* strictly from choice to choice; and a chosen suffix number is neither the
\* number of an entry that exists nor that of an earlier choice.
C3_SuffixesIncrease ==
    /\ \A i \in SuffixedChoices : \A j \in SuffixedChoices :
          i < j => SuffixNumber(chosen[i].path) < SuffixNumber(chosen[j].path)
    /\ \A p \in Procs :
          (HasChosen(p) /\ IsSmart(p))
          => /\ hist[p].emptyAtStart => ckpt_path[p] = UnsuffixedPath
             /\ ckpt_path[p] # UnsuffixedPath
                => /\ ckpt_path[p] = SuffixedPathOf(SuffixNumber(ckpt_path[p]))
                   /\ NameOf(ckpt_path[p]) \notin hist[p].atChoice
                   /\ SuffixNumber(ckpt_path[p])
                         \notin NumbersOf(NumberedEntries(hist[p].atChoice))

C3_Witness ==
    /\ \E i \in SuffixedChoices : \E j \in SuffixedChoices :
          i < j /\ SuffixNumber(chosen[j].path) > SuffixNumber(chosen[i].path) + 1
    /\ chosen[1].path = UnsuffixedPath
    /\ chosen[1].mode = "smart_counter"
    /\ pc[1] = "done"

\* C8 (SpecSeq): a no_counter_overwrite save chooses the unsuffixed path
\* whatever the directory holds, and writes no suffixed file.
C8_NoCounterIsUnsuffixed ==
    /\ \A i \in 1..Len(chosen) :
          chosen[i].mode = "no_counter_overwrite" => chosen[i].path = UnsuffixedPath
    /\ \A f \in files : owner[f].mode = "no_counter_overwrite" => f = UnsuffixedName
    /\ \A p \in Procs :
          (HasChosen(p) /\ ~IsSmart(p)) => ckpt_path[p] = UnsuffixedPath

C8_Witness ==
    \E p \in Procs :
        /\ pc[p] = "done"
        /\ ~IsSmart(p)
        /\ hist[p].prevOwner.mode = "no_counter_overwrite"
        /\ UnsuffixedName \in hist[p].atChoice
        /\ "ck_00002_.safetensors" \in hist[p].atChoice
        /\ ckpt_path[p] = UnsuffixedPath

\* C9 (Spec): a smart_counter save overwrites an entry only if another writer
\* changed the directory while the save ran; with a single writer it never
\* writes to a path that exists.
C9_SingleWriterNeverOverwrites ==
    \A p \in Procs :
        (pc[p] = "done" /\ IsSmart(p) /\ ~hist[p].interfered)
        => hist[p].prevOwner.mode = ""

\* two concurrent smart_counter saves chose the same path and the second write
\* replaced the first: two saves, one file
C9_Witness ==
    \E p \in Procs :
        /\ pc[p] = "done"
        /\ IsSmart(p)
        /\ hist[p].prevOwner.mode = "smart_counter"
        /\ hist[p].prevOwner.inv # inv[p]
        /\ \E i \in 1..Len(chosen) : \E j \in 1..Len(chosen) :
              /\ i < j
              /\ chosen[i].path = chosen[j].path
              /\ chosen[i].mode = "smart_counter"
              /\ chosen[j].mode = "smart_counter"
              /\ chosen[j].inv = inv[p]
              /\ chosen[i].inv = hist[p].prevOwner.inv

\* the chosen path is that of the least number above m whose path is not in fs
LeastFreeAbove(path, m, fs) ==
    LET n == SuffixNumber(path)
    IN  /\ path = SuffixedPathOf(n)
        /\ n >= m + 1
        /\ SuffixedName(n) \notin fs
        /\ \A k \in (m + 1)..(n - 1) : SuffixedName(k) \in fs

=============================================================================
